---- MODULE Spec2Model ----
(***************************************************************************)
(* ProtoVM: the Vm wrapper of src/protovm/vm.cc (mutable-builder and        *)
(* frozen-snapshot variants), over a wire-level model of the patch cursor,  *)
(* the Program interpreter and the incremental state tree; and the host of   *)
(* the Vms, ProtoVmIncrementalTracing, which instantiates one Vm per        *)
(* configuration and routes trace packets to them by trusted pid.           *)
(*                                                                          *)
(* The UI: the d3 charts (Chart, FilterStore, DataSource queries in flight) *)
(* and the start-up of the extension servers (initializeExtensions).        *)
(*                                                                          *)
(* Bytes are naturals below 256; a byte string is a sequence of bytes.      *)
(* The wire format is protobuf's: a field is a tag byte (field id * 8 +     *)
(* wire type) followed by a varint, a fixed-width value or a length and a   *)
(* payload.                                                                 *)
(***************************************************************************)
EXTENDS Naturals, Sequences, FiniteSets, TLC

VARIABLES
  vms,     \* the Vm objects alive, in construction order
  ret,     \* what the most recent call returned
  born,    \* per Vm: how it was constructed (constructor arguments, clone source)
  twin,    \* the twin run: whose turn it is, the patch and the two results
  pid_to_vm_,  \* the host's index: entries [pid, vm] in multimap order; the
               \* host's arena vms_ is vms
  reply,   \* what the most recent call on the host did and returned
  ui,      \* the charts page: the FilterStore, the Charts, the queries in
           \* flight, the clock, and what the most recent task did
  ext      \* initializeExtensions: the servers, the fetches in flight and
           \* their results

vars == <<vms, ret, born, twin, pid_to_vm_, reply, ui, ext>>

\* ------------------------------------------------------------------ bounds

TightBudget == 2     \* the smaller memory_limit_bytes a Vm is constructed with
RoomyBudget == 4     \* the larger one

\* ------------------------------------------------------------ wire format

VARINT == 0
FIXED64 == 1
LENGTH_DELIMITED == 2
FIXED32 == 5

Tag(id, type) == id * 8 + type

Take(s, n) == SubSeq(s, 1, n)
Drop(s, n) == SubSeq(s, n + 1, Len(s))

RECURSIVE Concat(_)
Concat(ss) == IF ss = <<>> THEN <<>> ELSE Head(ss) \o Concat(Tail(ss))

\* A varint: 7 bits per byte, least significant group first, the high bit
\* set on every byte but the last.
RECURSIVE EncodeVarint(_)
EncodeVarint(v) ==
  IF v < 128 THEN <<v>> ELSE <<128 + (v % 128)>> \o EncodeVarint(v \div 128)

VarintMore(byte, more) ==
  [ok |-> more.ok, value |-> (byte % 128) + 128 * more.value, rest |-> more.rest]

RECURSIVE ReadVarint(_)
ReadVarint(bytes) ==
  IF bytes = <<>> THEN [ok |-> FALSE, value |-> 0, rest |-> <<>>]
  ELSE IF Head(bytes) < 128
    THEN [ok |-> TRUE, value |-> Head(bytes), rest |-> Tail(bytes)]
    ELSE VarintMore(Head(bytes), ReadVarint(Tail(bytes)))

\* One field off the front of a byte string: [ok, field, rest]. A field is
\* [id, type, value]: value is <<n>> for a varint field of number n and the
\* payload bytes of every other field.
NoField == [id |-> 0, type |-> 0, value |-> <<>>]
BadRead == [ok |-> FALSE, field |-> NoField, rest |-> <<>>]

ReadFixed(id, type, width, bytes) ==
  IF Len(bytes) < width THEN BadRead
  ELSE [ok |-> TRUE,
        field |-> [id |-> id, type |-> type, value |-> Take(bytes, width)],
        rest |-> Drop(bytes, width)]

\* v: the varint read as the field's value.
VarintField(id, v) ==
  IF ~v.ok THEN BadRead
  ELSE [ok |-> TRUE,
        field |-> [id |-> id, type |-> VARINT, value |-> <<v.value>>],
        rest |-> v.rest]

\* n: the varint read as the payload's length.
DelimitedField(id, n) ==
  IF ~n.ok THEN BadRead ELSE ReadFixed(id, LENGTH_DELIMITED, n.value, n.rest)

ReadPayload(id, type, bytes) ==
  IF type = VARINT THEN VarintField(id, ReadVarint(bytes))
  ELSE IF type = FIXED64 THEN ReadFixed(id, type, 8, bytes)
  ELSE IF type = FIXED32 THEN ReadFixed(id, type, 4, bytes)
  ELSE IF type = LENGTH_DELIMITED THEN DelimitedField(id, ReadVarint(bytes))
  ELSE BadRead

\* tag: the varint read as the field's tag.
TaggedField(tag) ==
  IF ~tag.ok \/ tag.value \div 8 = 0 THEN BadRead
  ELSE ReadPayload(tag.value \div 8, tag.value % 8, tag.rest)

ReadField(bytes) == TaggedField(ReadVarint(bytes))

\* The cursor over one message: every field of the byte string in order, or
\* not ok when the bytes are malformed or truncated.
BadCursor == [ok |-> FALSE, fields |-> <<>>]

FieldThen(field, more) ==
  IF ~more.ok THEN BadCursor
  ELSE [ok |-> TRUE, fields |-> <<field>> \o more.fields]

RECURSIVE RoCursor(_)
FieldsFrom(r) ==
  IF ~r.ok THEN BadCursor ELSE FieldThen(r.field, RoCursor(r.rest))

RoCursor(bytes) ==
  IF bytes = <<>> THEN [ok |-> TRUE, fields |-> <<>>]
  ELSE FieldsFrom(ReadField(bytes))

SerializeField(f) ==
  EncodeVarint(Tag(f.id, f.type)) \o
    (IF f.type = VARINT THEN EncodeVarint(f.value[1])
     ELSE IF f.type = LENGTH_DELIMITED THEN EncodeVarint(Len(f.value)) \o f.value
     ELSE f.value)

\* The tree is the sequence of its top-level fields; a nested message is kept
\* in its wire form as the field's payload.
SerializeAsString(tree) == Concat([i \in 1..Len(tree) |-> SerializeField(tree[i])])


\* --------------------------------------------------------------- Program
\* A Program region is a flags byte (STRICT or LENIENT) followed by its
\* instructions. An instruction is the tag byte of the field it addresses
\* (field id and the wire type it expects) and an opcode byte; a MERGE
\* instruction is followed by the length and the bytes of the region that
\* governs the nested message.

LENIENT == 0
STRICT == 1

SET == 0       \* overwrite scalar
MERGE == 1     \* merge into nested message
APPEND == 2    \* append to a repeated field
DEL == 3       \* delete, then set

Instruction(tag, op, region) ==
  [id |-> tag \div 8, type |-> tag % 8, op |-> op, region |-> region]

RECURSIVE DecodeInstructions(_)
DecodeInstructions(bytes) ==
  IF Len(bytes) < 2 THEN <<>>
  ELSE IF bytes[2] = MERGE
    THEN <<Instruction(bytes[1], MERGE, SubSeq(bytes, 4, 3 + bytes[3]))>>
         \o DecodeInstructions(Drop(bytes, 3 + bytes[3]))
    ELSE <<Instruction(bytes[1], bytes[2], <<>>)>>
         \o DecodeInstructions(Drop(bytes, 2))

DecodeProgram(bytes) ==
  IF bytes = <<>> THEN [strict |-> FALSE, instructions |-> <<>>]
  ELSE [strict |-> Head(bytes) = STRICT,
        instructions |-> DecodeInstructions(Tail(bytes))]

\* The instructions of a region that address field id (none, or the first).
Addressed(region, id) ==
  SelectSeq(region.instructions, LAMBDA ins : ins.id = id)

\* ------------------------------------------------- incremental state tree

HasField(tree, id) == \E i \in 1..Len(tree) : tree[i].id = id

FirstIndex(tree, id) ==
  CHOOSE i \in 1..Len(tree) :
    tree[i].id = id /\ \A j \in 1..(i - 1) : tree[j].id # id

Overwrite(tree, f) ==
  IF HasField(tree, f.id)
  THEN [tree EXCEPT ![FirstIndex(tree, f.id)] = f]
  ELSE Append(tree, f)

Delete(tree, id) == SelectSeq(tree, LAMBDA g : g.id # id)

\* The payload of the nested message at field id, empty when there is none.
NestedBytes(tree, id) ==
  IF HasField(tree, id) /\ tree[FirstIndex(tree, id)].type = LENGTH_DELIMITED
  THEN tree[FirstIndex(tree, id)].value
  ELSE <<>>

\* The size the tree is tracked at against the memory budget.
TrackedSize(tree) == Len(SerializeAsString(tree))

\* ------------------------------------------------------------ interpreter

OkStatus == [state |-> "Ok", kind |-> "none"]
AbortStatus(kind) == [state |-> "Abort", kind |-> kind]

\* The fields of one patch message merged into an overlay of the tree, per
\* the instructions of the region: [ok, tree].
Failed == [ok |-> FALSE, tree |-> <<>>]
Merged(tree) == [ok |-> TRUE, tree |-> tree]

\* sub: the nested patch executed over the nested message.
MergedNested(f, tree, sub) ==
  IF ~sub.ok THEN Failed
  ELSE Merged(Overwrite(tree, [id |-> f.id, type |-> LENGTH_DELIMITED,
                               value |-> SerializeAsString(sub.tree)]))

RECURSIVE Execute(_, _, _)

\* nested: the cursor over the patch field's payload; old: the cursor over
\* the nested message the tree holds at that field.
MergeNested(ins, f, tree, nested, old) ==
  IF ~nested.ok \/ ~old.ok THEN Failed
  ELSE MergedNested(f, tree, Execute(ins.region, nested.fields, old.fields))

Perform(ins, f, tree) ==
  IF ins.type # f.type THEN Failed
  ELSE IF ins.op = SET THEN Merged(Overwrite(tree, f))
  ELSE IF ins.op = APPEND THEN Merged(Append(tree, f))
  ELSE IF ins.op = DEL THEN Merged(Append(Delete(tree, f.id), f))
  ELSE IF ins.op = MERGE
    THEN MergeNested(ins, f, tree, RoCursor(f.value),
                     RoCursor(NestedBytes(tree, f.id)))
  ELSE Failed

\* Mutant: every region is treated as strict.
ExecuteField_AlwaysStrict(strict, at, f, tree) ==
  IF at = <<>> THEN Failed ELSE Perform(Head(at), f, tree)

\* at: the instructions addressing field f. An unaddressed field is an error
\* in a strict region and is skipped otherwise.
ExecuteField(strict, at, f, tree) ==
  IF at = <<>> THEN (IF strict THEN Failed ELSE Merged(tree))
  ELSE Perform(Head(at), f, tree)

ExecuteHead(region, f, tree) ==
  ExecuteField(region.strict, Addressed(region, f.id), f, tree)

\* step: the overlay after the field before.
ExecuteRest(regionBytes, fields, step) ==
  IF ~step.ok THEN Failed ELSE Execute(regionBytes, fields, step.tree)

Execute(regionBytes, fields, tree) ==
  IF fields = <<>> THEN Merged(tree)
  ELSE ExecuteRest(regionBytes, Tail(fields),
                   ExecuteHead(DecodeProgram(regionBytes), Head(fields), tree))

\* The overlay is committed when the whole patch executed and the tree with
\* it stays within the budget: [status, tree].
Commit(parser, dst, overlay) ==
  IF ~overlay.ok
  THEN [status |-> AbortStatus("malformed-input"), tree |-> dst]
  ELSE IF TrackedSize(overlay.tree) > parser.memory_limit_bytes
  THEN [status |-> AbortStatus("resource-exceeded"), tree |-> dst]
  ELSE [status |-> OkStatus, tree |-> overlay.tree]

\* Parser::Run: the patch either applies whole or leaves the tree as it was.
\* [status, tree]: the result and the tree after the call.
Run(parser, src, dst) ==
  IF ~src.ok THEN [status |-> AbortStatus("malformed-input"), tree |-> dst]
  ELSE Commit(parser, dst, Execute(parser.program, src.fields, dst))

\* --------------------------------------------------------------------- Vm

ReadWriteState(program, memory_limit_bytes) ==
  [type |-> "ReadWriteState",
   parser |-> [program |-> program, memory_limit_bytes |-> memory_limit_bytes],
   incremental_state |-> <<>>]

ReadOnlyState(incremental_state) ==
  [type |-> "ReadOnlyState", serialized_incremental_state |-> incremental_state]

\* Mutant: the budget is a hard-coded constant, the argument is dropped.
Vm_FixedLimit(program, memory_limit_bytes) ==
  [owned_program |-> program,
   state_ |-> ReadWriteState(program, RoomyBudget)]

\* Mutant: program is moved into the parser and owned_program stays empty.
Vm_MovesProgram(program, memory_limit_bytes) ==
  [owned_program |-> <<>>,
   state_ |-> ReadWriteState(program, memory_limit_bytes)]

\* Mutant: the tree starts with field 1 written out at its default value.
Vm_SeedsDefault(program, memory_limit_bytes) ==
  [owned_program |-> program,
   state_ |-> [ReadWriteState(program, memory_limit_bytes) EXCEPT
                 !.incremental_state = <<[id |-> 1, type |-> VARINT, value |-> <<0>>]>>]]

\* Vm::Vm(std::string program, size_t memory_limit_bytes)
Vm(program, memory_limit_bytes) ==
  [owned_program |-> program,
   state_ |-> ReadWriteState(program, memory_limit_bytes)]

\* Mutant: the constructor re-encodes the snapshot instead of storing it.
VmFromIncrementalState_Reencodes(incremental_state) ==
  [owned_program |-> <<>>,
   state_ |-> ReadOnlyState(SerializeAsString(RoCursor(incremental_state).fields))]

\* Vm::Vm(std::string incremental_state): owned_program is default-constructed.
VmFromIncrementalState(incremental_state) ==
  [owned_program |-> <<>>, state_ |-> ReadOnlyState(incremental_state)]

\* StatusOr<void>::Abort()
Abort == AbortStatus("unspecified")

\* run: what Parser::Run did to the root and what it returned.
Ran(vm, run) ==
  [vm |-> [vm EXCEPT !.state_.incremental_state = run.tree],
   result |-> run.status]

\* Mutant: the variant check answers success instead of Abort().
ApplyPatch_OkWhenReadOnly(vm, packet) ==
  IF vm.state_.type # "ReadWriteState" THEN [vm |-> vm, result |-> OkStatus]
  ELSE Ran(vm, Run(vm.state_.parser, RoCursor(packet), vm.state_.incremental_state))

\* Mutant: dst is a fresh root instead of incremental_state.GetRoot().
ApplyPatch_FreshRoot(vm, packet) ==
  IF vm.state_.type # "ReadWriteState" THEN [vm |-> vm, result |-> Abort]
  ELSE Ran(vm, Run(vm.state_.parser, RoCursor(packet), <<>>))

\* Mutant: the destination root is one static tree shared by every Vm (the
\* tree of the Vm constructed first).
ApplyPatch_SharedRoot(vm, packet) ==
  IF vm.state_.type # "ReadWriteState" THEN [vm |-> vm, result |-> Abort]
  ELSE Ran(vm, Run(vm.state_.parser, RoCursor(packet),
                   IF vms[1].state_.type = "ReadWriteState"
                   THEN vms[1].state_.incremental_state
                   ELSE vm.state_.incremental_state))

\* Mutant: Run works on a copy of the root; its status is returned and the
\* copy is dropped.
ApplyPatch_CopiesRoot(vm, packet) ==
  IF vm.state_.type # "ReadWriteState" THEN [vm |-> vm, result |-> Abort]
  ELSE [vm |-> vm,
        result |-> Run(vm.state_.parser, RoCursor(packet),
                       vm.state_.incremental_state).status]

\* Every method is [vm, result]: the object after the call and what the call
\* returned.
ApplyPatch(vm, packet) ==
  IF vm.state_.type # "ReadWriteState" THEN [vm |-> vm, result |-> Abort]
  ELSE LET src == RoCursor(packet)
           dst == vm.state_.incremental_state
       IN  Ran(vm, Run(vm.state_.parser, src, dst))

\* Mutant: the frozen snapshot is moved out of the Vm (std::move) instead of
\* copied.
SerializeIncrementalState_MovesOut(vm) ==
  IF vm.state_.type = "ReadOnlyState"
  THEN [vm |-> [vm EXCEPT !.state_.serialized_incremental_state = <<>>],
        result |-> vm.state_.serialized_incremental_state]
  ELSE [vm |-> vm, result |-> SerializeAsString(vm.state_.incremental_state)]

SerializeIncrementalState(vm) ==
  IF vm.state_.type = "ReadOnlyState"
  THEN [vm |-> vm, result |-> vm.state_.serialized_incremental_state]
  ELSE [vm |-> vm, result |-> SerializeAsString(vm.state_.incremental_state)]

SerializeProgram(vm) == [vm |-> vm, result |-> vm.owned_program]

\* Mutant: the clone is a copy of the whole Vm (new Vm(*this)), variant and all.
CloneReadOnly_CopiesVm(vm) == [vm |-> vm, result |-> vm]

\* Mutant: the source itself is turned into the frozen snapshot.
CloneReadOnly_FreezesSource(vm) ==
  [vm |-> [vm EXCEPT !.state_ =
             ReadOnlyState(SerializeIncrementalState(vm).result)],
   result |-> VmFromIncrementalState(SerializeIncrementalState(vm).result)]

\* Mutant: the snapshot is taken from SerializeProgram().
CloneReadOnly_SerializesProgram(vm) ==
  [vm |-> vm, result |-> VmFromIncrementalState(SerializeProgram(vm).result)]

CloneReadOnly(vm) ==
  LET incremental_state == SerializeIncrementalState(vm)
  IN  [vm |-> incremental_state.vm,
       result |-> VmFromIncrementalState(incremental_state.result)]

\* ----------------------------------------------------------------- inputs

\* Field 1: overwrite scalar. Field 2: repeated, append. Field 3: nested
\* message whose field 1 is an overwritten scalar. Field 4: delete-then-set.
LenientProgram ==
  <<LENIENT, Tag(1, VARINT), SET, Tag(2, VARINT), APPEND,
    Tag(3, LENGTH_DELIMITED), MERGE, 3, LENIENT, Tag(1, VARINT), SET,
    Tag(4, VARINT), DEL>>

StrictProgram == <<STRICT, Tag(1, VARINT), SET, Tag(2, VARINT), APPEND>>

Programs == {LenientProgram, StrictProgram}

Budgets == {TightBudget, RoomyBudget}

\* The handles under which one run holds its Vm objects.
Handles == {1, 2}

SetOne == <<Tag(1, VARINT), 1>>
SetTwo == <<Tag(1, VARINT), 2>>
AppendOne == <<Tag(2, VARINT), 1>>
NestedOne == <<Tag(3, LENGTH_DELIMITED), 2, Tag(1, VARINT), 1>>
ResetFour == <<Tag(4, VARINT), 1>>
Unaddressed == <<Tag(5, VARINT), 1>>
Truncated == <<Tag(1, VARINT), 2, Tag(2, VARINT)>>
WrongWireType == <<Tag(2, VARINT), 1, Tag(1, LENGTH_DELIMITED), 0>>

Patches ==
  {SetOne, SetTwo, AppendOne, NestedOne, ResetFour, Unaddressed, Truncated,
   WrongWireType}

\* Byte strings a frozen-snapshot Vm is constructed from.
Snapshots == {<<>>, SetOne, <<Tag(1, VARINT)>>}

\* ------------------------------------------------------------------ calls

\* again: a SerializeIncrementalState call that directly follows another one
\* on the same object.
Returned(op, self, status, value) ==
  [op |-> op, self |-> self, status |-> status, value |-> value,
   again |-> op = "SerializeIncrementalState" /\ ret.op = op /\ ret.self = self]

NoCall == [op |-> "none", self |-> 0, status |-> OkStatus, value |-> <<>>,
           again |-> FALSE]

NoTwin == [turn |-> 0, packet |-> <<>>, first |-> OkStatus, second |-> OkStatus]

\* std::nullopt; a returned blob is <<bytes>>.
nullopt == <<>>

NoReply == [op |-> "none", packet |-> <<>>, pid |-> <<>>, target |-> 0,
            passed |-> <<>>, status |-> OkStatus, returned |-> nullopt,
            after |-> 0]

Live == 1..Len(vms)

Init ==
  /\ vms = <<>>
  /\ ret = NoCall
  /\ born = <<>>
  /\ twin = NoTwin
  /\ pid_to_vm_ = <<>>
  /\ reply = NoReply
  /\ ui = <<>>
  /\ ext = <<>>

FromProgram(program, memory_limit_bytes) ==
  [ctor |-> "program", program |-> program,
   memory_limit_bytes |-> memory_limit_bytes, source |-> 0, snapshot |-> <<>>]

Construct(program, memory_limit_bytes) ==
  /\ Len(vms) + 1 \in Handles
  /\ vms' = Append(vms, Vm(program, memory_limit_bytes))
  /\ born' = Append(born, FromProgram(program, memory_limit_bytes))
  /\ ret' = Returned("Vm", Len(vms) + 1, OkStatus, <<>>)

ConstructFromIncrementalState(incremental_state) ==
  /\ Len(vms) + 1 \in Handles
  /\ vms' = Append(vms, VmFromIncrementalState(incremental_state))
  /\ born' = Append(born, [ctor |-> "incremental_state", program |-> <<>>,
                           memory_limit_bytes |-> 0,
                           source |-> 0, snapshot |-> incremental_state])
  /\ ret' = Returned("Vm", Len(vms) + 1, OkStatus, <<>>)

\* Mutant: incremental_state is one static tree: every mutable-builder Vm
\* sees what the call wrote.
CallApplyPatch_StaticTree(self, packet) ==
  LET call == ApplyPatch(vms[self], packet)
  IN  /\ vms' = [i \in Live |->
                  IF i = self THEN call.vm
                  ELSE IF vms[i].state_.type = "ReadWriteState"
                          /\ call.vm.state_.type = "ReadWriteState"
                  THEN [vms[i] EXCEPT !.state_.incremental_state =
                                        call.vm.state_.incremental_state]
                  ELSE vms[i]]
      /\ ret' = Returned("ApplyPatch", self, call.result, packet)
      /\ UNCHANGED born

CallApplyPatch(self, packet) ==
  LET call == ApplyPatch(vms[self], packet)
  IN  /\ vms' = [vms EXCEPT ![self] = call.vm]
      /\ ret' = Returned("ApplyPatch", self, call.result, packet)
      /\ UNCHANGED born

CallSerializeIncrementalState(self) ==
  LET call == SerializeIncrementalState(vms[self])
  IN  /\ vms' = [vms EXCEPT ![self] = call.vm]
      /\ ret' = Returned("SerializeIncrementalState", self, OkStatus, call.result)
      /\ UNCHANGED born

\* std::string SerializeProgram() const: the return type carries no failure.
CallSerializeProgram(self) ==
  LET call == SerializeProgram(vms[self])
  IN  /\ vms' = [vms EXCEPT ![self] = call.vm]
      /\ ret' = Returned("SerializeProgram", self, OkStatus, call.result)
      /\ UNCHANGED born

\* The snapshot recorded for the clone is what the clone itself serializes to
\* right after the call.
CallCloneReadOnly(self) ==
  LET call == CloneReadOnly(vms[self])
  IN  /\ Len(vms) + 1 \in Handles
      /\ vms' = Append([vms EXCEPT ![self] = call.vm], call.result)
      /\ born' = Append(born, [ctor |-> "clone", program |-> <<>>,
                               memory_limit_bytes |-> 0, source |-> self,
                               snapshot |-> SerializeIncrementalState(call.result).result])
      /\ ret' = Returned("CloneReadOnly", self, OkStatus, <<>>)

Next ==
  \/ /\ \E program \in Programs, memory_limit_bytes \in Budgets :
          Construct(program, memory_limit_bytes)
     /\ UNCHANGED <<twin, pid_to_vm_, reply, ui, ext>>
  \/ /\ \E incremental_state \in Snapshots :
          ConstructFromIncrementalState(incremental_state)
     /\ UNCHANGED <<twin, pid_to_vm_, reply, ui, ext>>
  \/ /\ \E self \in Live, packet \in Patches : CallApplyPatch(self, packet)
     /\ UNCHANGED <<twin, pid_to_vm_, reply, ui, ext>>
  \/ /\ \E self \in Live : CallSerializeIncrementalState(self)
     /\ UNCHANGED <<twin, pid_to_vm_, reply, ui, ext>>
  \/ /\ \E self \in Live : CallSerializeProgram(self)
     /\ UNCHANGED <<twin, pid_to_vm_, reply, ui, ext>>
  \/ /\ \E self \in Live : CallCloneReadOnly(self)
     /\ UNCHANGED <<twin, pid_to_vm_, reply, ui, ext>>

Spec == Init /\ [][Next]_vars

\* ---------------------------------------------------------------- twin run
\* Two Vms freshly constructed from the same Program and the same budget are
\* fed the same patches, the first Vm and then the second, patch by patch.

TwinInit ==
  \E program \in Programs, memory_limit_bytes \in Budgets :
    /\ vms = <<Vm(program, memory_limit_bytes), Vm(program, memory_limit_bytes)>>
    /\ born = <<FromProgram(program, memory_limit_bytes),
                FromProgram(program, memory_limit_bytes)>>
    /\ ret = NoCall
    /\ twin = [NoTwin EXCEPT !.turn = 1]
    /\ pid_to_vm_ = <<>>
    /\ reply = NoReply
    /\ ui = <<>>
    /\ ext = <<>>

FeedFirst(packet) ==
  /\ twin.turn = 1
  /\ CallApplyPatch(1, packet)
  /\ twin' = [twin EXCEPT !.turn = 2, !.packet = packet,
                          !.first = ApplyPatch(vms[1], packet).result]

FeedSecond ==
  /\ twin.turn = 2
  /\ CallApplyPatch(2, twin.packet)
  /\ twin' = [twin EXCEPT !.turn = 1,
                          !.second = ApplyPatch(vms[2], twin.packet).result]

TwinNext ==
  \/ /\ \E packet \in Patches : FeedFirst(packet)
     /\ UNCHANGED <<pid_to_vm_, reply, ui, ext>>
  \/ /\ FeedSecond
     /\ UNCHANGED <<pid_to_vm_, reply, ui, ext>>
  \/ /\ \E self \in Live : CallSerializeIncrementalState(self)
     /\ UNCHANGED <<twin, pid_to_vm_, reply, ui, ext>>

SpecTwin == TwinInit /\ [][TwinNext]_vars

\* ------------------------------------------------------------------- host
\* ProtoVmIncrementalTracing: the arena vms_ (vms) and the index pid_to_vm_.

\* The value field id decodes to in a serialized state (<<>> when the field
\* is absent or the bytes do not decode).
ValuesOf(fields, id) == SelectSeq(fields, LAMBDA f : f.id = id)
LastValue(found) == IF found = <<>> THEN <<>> ELSE found[Len(found)].value
Decoded(bytes, id) == LastValue(ValuesOf(RoCursor(bytes).fields, id))

\* memory_limit_bytes of every Vm the host instantiates.
MemoryLimitBytes == 1000000

\* Field numbers of the envelope fields of TracePacket.
trusted_uid == 3
trusted_packet_sequence_id == 10
trusted_pid == 79

\* A protozero decoder keeps the fields it could read, up to the first one
\* it could not.
RECURSIVE ParseFields(_)
FieldsUntilBad(r) ==
  IF ~r.ok THEN <<>> ELSE <<r.field>> \o ParseFields(r.rest)

ParseFields(bytes) ==
  IF bytes = <<>> THEN <<>> ELSE FieldsUntilBad(ReadField(bytes))

Decoder(bytes) == ParseFields(bytes)

has(patch, id) == ValuesOf(patch, id) # <<>>

\* A scalar accessor returns the last occurrence, and 0 for an absent field.
Number(value) == IF value = <<>> THEN 0 ELSE value[1]
Get(patch, id) == Number(LastValue(ValuesOf(patch, id)))

\* n: the entries whose key does not come after pid.
InsertAt(entries, n, pid, vm) ==
  Take(entries, n) \o <<[pid |-> pid, vm |-> vm]>> \o Drop(entries, n)

\* Mutant: the index is a std::map: a pid already indexed keeps its Vm.
Emplace_UniqueKey(entries, pid, vm) ==
  IF \E k \in 1..Len(entries) : entries[k].pid = pid THEN entries
  ELSE InsertAt(entries,
                Cardinality({k \in 1..Len(entries) : entries[k].pid <= pid}),
                pid, vm)

\* std::multimap::emplace: entries are ordered by key, and an entry goes
\* after the entries of an equal key.
Emplace(entries, pid, vm) ==
  InsertAt(entries,
           Cardinality({k \in 1..Len(entries) : entries[k].pid <= pid}),
           pid, vm)

\* for (auto it = vm_decoder.pid(); it; ++it) pid_to_vm_.emplace(*it, vm);
RECURSIVE EmplaceAll(_, _, _)
EmplaceAll(entries, pids, vm) ==
  IF pids = <<>> THEN entries
  ELSE EmplaceAll(Emplace(entries, Head(pids), vm), Tail(pids), vm)

\* Mutant: the pointer indexed is not the one the arena owns.
InstantiateProtoVm_IndexesUnowned(blob) ==
  /\ Len(vms) + 1 \in Handles
  /\ vms' = Append(vms, Vm(blob.program, MemoryLimitBytes))
  /\ born' = Append(born, FromProgram(blob.program, MemoryLimitBytes))
  /\ pid_to_vm_' = EmplaceAll(pid_to_vm_, blob.pid, Len(vms) + 2)
  /\ reply' = [NoReply EXCEPT !.op = "InstantiateProtoVm",
                              !.packet = blob.program, !.pid = blob.pid,
                              !.target = Len(vms) + 1]

\* blob: what ProtoVm::Decoder reads from the configuration, [program, pid].
InstantiateProtoVm(blob) ==
  /\ Len(vms) + 1 \in Handles
  /\ vms' = Append(vms, Vm(blob.program, MemoryLimitBytes))
  /\ born' = Append(born, FromProgram(blob.program, MemoryLimitBytes))
  /\ pid_to_vm_' = EmplaceAll(pid_to_vm_, blob.pid, Len(vms) + 1)
  /\ reply' = [NoReply EXCEPT !.op = "InstantiateProtoVm",
                              !.packet = blob.program, !.pid = blob.pid,
                              !.target = Len(vms) + 1]

\* Mutant: lower_bound in place of find: a pid that is not indexed yields
\* the entries of the next pid.
Find_LowerBound(entries, patch) ==
  IF ~has(patch, trusted_pid) THEN {}
  ELSE {k \in 1..Len(entries) :
          /\ entries[k].pid >= Get(patch, trusted_pid)
          /\ \A n \in 1..Len(entries) :
               entries[n].pid >= Get(patch, trusted_pid) => entries[k].pid <= entries[n].pid}

\* std::multimap::find: the entries of the key; which one of several it
\* returns is unspecified.
Find(entries, patch) ==
  IF ~has(patch, trusted_pid) THEN {}
  ELSE {k \in 1..Len(entries) : entries[k].pid = Get(patch, trusted_pid)}

\* Mutant: the envelope fields are taken out of the bytes handed to ApplyPatch.
Passed_PayloadOnly(blob) ==
  SerializeAsString(SelectSeq(Decoder(blob), LAMBDA f :
    f.id \notin {trusted_uid, trusted_packet_sequence_id, trusted_pid}))

\* {blob.data(), blob.size()}: the bytes handed to ApplyPatch.
Passed(blob) == blob

\* Mutant: set_trusted_uid is left out.
Output_OmitsUid(state, patch) ==
  state
  \o EncodeVarint(Tag(trusted_pid, VARINT)) \o EncodeVarint(Get(patch, trusted_pid))
  \o EncodeVarint(Tag(trusted_packet_sequence_id, VARINT))
  \o EncodeVarint(Get(patch, trusted_packet_sequence_id))

\* The returned packet: the serialized state, then the three envelope fields
\* read from the patch.
Output(state, patch) ==
  state
  \o EncodeVarint(Tag(trusted_uid, VARINT)) \o EncodeVarint(Get(patch, trusted_uid))
  \o EncodeVarint(Tag(trusted_pid, VARINT)) \o EncodeVarint(Get(patch, trusted_pid))
  \o EncodeVarint(Tag(trusted_packet_sequence_id, VARINT))
  \o EncodeVarint(Get(patch, trusted_packet_sequence_id))

\* after: the pid of the call before, when that call's ApplyPatch failed.
Replied(blob, patch, target, passed, status, returned) ==
  [op |-> "TryProcessPatch", packet |-> blob, pid |-> <<Get(patch, trusted_pid)>>,
   target |-> target, passed |-> passed, status |-> status,
   returned |-> returned,
   after |-> IF reply.op = "TryProcessPatch" /\ reply.target # 0
                /\ reply.status.state # "Ok"
             THEN reply.pid[1] ELSE 0]

\* Mutant: the status of ApplyPatch is not looked at.
Patched_IgnoresStatus(blob, patch, vm, applied, serialized) ==
  /\ vms' = [vms EXCEPT ![vm] = serialized.vm]
  /\ reply' = Replied(blob, patch, vm, Passed(blob), applied.result,
                      <<Output(serialized.result, patch)>>)

\* applied: what ApplyPatch did and returned; serialized: what
\* SerializeIncrementalState does after it.
Patched(blob, patch, vm, applied, serialized) ==
  IF applied.result.state # "Ok"
  THEN /\ vms' = [vms EXCEPT ![vm] = applied.vm]
       /\ reply' = Replied(blob, patch, vm, Passed(blob), applied.result, nullopt)
  ELSE /\ vms' = [vms EXCEPT ![vm] = serialized.vm]
       /\ reply' = Replied(blob, patch, vm, Passed(blob), applied.result,
                           <<Output(serialized.result, patch)>>)

Applied(blob, patch, vm, applied) ==
  Patched(blob, patch, vm, applied, SerializeIncrementalState(applied.vm))

Routed(blob, patch, found) ==
  IF found = {}
  THEN /\ UNCHANGED vms
       /\ reply' = Replied(blob, patch, 0, <<>>, OkStatus, nullopt)
  ELSE \E it \in found :
         Applied(blob, patch, pid_to_vm_[it].vm,
                 ApplyPatch(vms[pid_to_vm_[it].vm], Passed(blob)))

TryProcessPatch(blob) ==
  /\ Routed(blob, Decoder(blob), Find(pid_to_vm_, Decoder(blob)))
  /\ UNCHANGED <<pid_to_vm_, born>>

\* Programs of the configurations: field 1 is set; the second is strict; the
\* third also sets the field whose number is trusted_uid's.
SetterProgram == <<LENIENT, Tag(1, VARINT), SET>>
StrictSetterProgram == <<STRICT, Tag(1, VARINT), SET>>
UidSetterProgram ==
  <<LENIENT, Tag(1, VARINT), SET, Tag(trusted_uid, VARINT), SET>>

ProtoVmBlobs ==
  [program : {SetterProgram, StrictSetterProgram, UidSetterProgram},
   pid : {<<1>>, <<2>>, <<1, 2>>}]

Envelope(uid, pid, sequence_id) ==
  EncodeVarint(Tag(trusted_uid, VARINT)) \o EncodeVarint(uid)
  \o EncodeVarint(Tag(trusted_pid, VARINT)) \o EncodeVarint(pid)
  \o EncodeVarint(Tag(trusted_packet_sequence_id, VARINT))
  \o EncodeVarint(sequence_id)

\* Packets of the pids 1 and 2 and of a pid no configuration lists, a packet
\* without envelope, and one cut short after its envelope.
TracePackets ==
  {payload \o Envelope(5, pid, 1) :
     payload \in {SetOne, SetTwo, <<Tag(1, LENGTH_DELIMITED), 0>>},
     pid \in {1, 2, 3}}
  \cup {SetOne, Envelope(5, 1, 1) \o <<Tag(1, VARINT)>>}

HostNext ==
  \/ /\ \E blob \in ProtoVmBlobs : InstantiateProtoVm(blob)
     /\ UNCHANGED <<ret, twin, ui, ext>>
  \/ /\ \E blob \in TracePackets : TryProcessPatch(blob)
     /\ UNCHANGED <<ret, twin, ui, ext>>

SpecHost == Init /\ [][HostNext]_vars

\* ----------------------------------------------------------------- charts
\* Two Charts over one FilterStore, each with its DataSource. A task is one
\* event handler run to completion together with the microtasks it queues.
\* The promise of a MemorySource query is resolved within the task that made
\* it, so such queries settle among its microtasks, in the order made; a
\* query of a backend source resolves or rejects in a later task, in any
\* order.

MaxHistory == 2     \* FilterStore.history is let grow to this length
MaxInFlight == 2    \* queries one Chart has in flight at a time
MaxClock == 2       \* Date.now() stays at or below this

Charts == {"chart-0", "chart-1"}

\* The rows of the DataSource (column x).
Rows == <<0, 1, 2>>

\* What a renderer requests in one event handler: the filters of a brush
\* (x >= 1, or x >= 1 and x <= 1), or the removal of the chart's filters.
Requests ==
  {<<[col |-> "x", op |-> ">=", val |-> 1]>>,
   <<[col |-> "x", op |-> ">=", val |-> 1], [col |-> "x", op |-> "<=", val |-> 1]>>,
   <<[col |-> "__clear_all__", op |-> "=", val |-> 0]>>}

\* MemorySource.applyFilters (query without aggregation).
Matches(value, f) ==
  IF f.op = ">=" THEN value >= f.val
  ELSE IF f.op = "<=" THEN value <= f.val
  ELSE TRUE

query(filters) ==
  SelectSeq(Rows, LAMBDA value :
    \A k \in 1..Len(filters) : Matches(value, filters[k]))

getFilters(groups) == Concat([k \in 1..Len(groups) |-> groups[k].filters])

\* Chart.load up to its await: the query is in flight.
load(chart, filters) ==
  [chart EXCEPT !.loading = TRUE, !.inflight = Append(@, filters)]

handleFilterNotification(chart, chartId, filters, sourceChartId, updateSourceChart) ==
  IF sourceChartId # chartId \/ updateSourceChart
  THEN load([chart EXCEPT !.currentFilters = filters], filters)
  ELSE [chart EXCEPT !.currentFilters = filters]

\* after: the charts once every listener has run; the note records the
\* source and who started a query.
Notified(u, sourceChartId, after) ==
  [u EXCEPT !.charts = after,
            !.seen.notes = Append(@,
              [source |-> sourceChartId,
               reloaded |-> {c \in DOMAIN after :
                               Len(after[c].inflight) > Len(u.charts[c].inflight)}])]

\* Mutant: the chart that made the change is not called.
notify_SkipsSource(u, sourceChartId) ==
  Notified(u, sourceChartId,
           [c \in Charts |->
              IF c = sourceChartId THEN u.charts[c]
              ELSE handleFilterNotification(u.charts[c], c, getFilters(u.groups),
                                            sourceChartId, u.updateSourceChart)])

\* FilterStore.notify: every listener is called with the filters of all
\* groups and the source chart id.
notify(u, sourceChartId) ==
  Notified(u, sourceChartId,
           [c \in Charts |->
              handleFilterNotification(u.charts[c], c, getFilters(u.groups),
                                       sourceChartId, u.updateSourceChart)])

\* Map.set: a key already there keeps its place.
MapSet(groups, group) ==
  IF \E k \in 1..Len(groups) : groups[k].id = group.id
  THEN [k \in 1..Len(groups) |->
          IF groups[k].id = group.id THEN group ELSE groups[k]]
  ELSE Append(groups, group)

setFilterGroup(u, group, sourceChartId) ==
  notify([u EXCEPT !.history = Append(@, u.groups),
                   !.groups = MapSet(@, group),
                   !.seen.published = Append(@, group)], sourceChartId)

clearFilterGroup(u, id, sourceChartId) ==
  notify([u EXCEPT !.history = Append(@, u.groups),
                   !.groups = SelectSeq(@, LAMBDA g : g.id # id)], sourceChartId)

clearAll(u) ==
  notify([u EXCEPT !.history = Append(@, u.groups), !.groups = <<>>], "system")

\* Mutant: undo drops the snapshot it popped.
undo_KeepsGroups(u) ==
  IF u.history = <<>> THEN u
  ELSE notify([u EXCEPT !.history = Take(@, Len(@) - 1)], "system")

undo(u) ==
  IF u.history = <<>> THEN u
  ELSE notify([u EXCEPT !.groups = u.history[Len(u.history)],
                        !.history = Take(@, Len(@) - 1)], "system")

RECURSIVE ClearEach(_, _, _)
ClearEach(u, ids, chartId) ==
  IF ids = <<>> THEN u
  ELSE ClearEach(clearFilterGroup(u, Head(ids), chartId), Tail(ids), chartId)

clearChartFilters(u, chartId) ==
  [ClearEach(u, u.charts[chartId].filterGroupStack, chartId)
     EXCEPT !.charts[chartId].filterGroupStack = <<>>]

\* cleared: the page after the chart's earlier groups were removed.
Published(cleared, chartId, group) ==
  [setFilterGroup(cleared, group, chartId)
     EXCEPT !.charts[chartId].filterGroupStack = Append(@, group.id),
            !.charts[chartId].pendingFilters = <<>>]

\* now: Date.now(). The group's label is a function of its filters and is
\* left out.
processPendingFilters(u, chartId, now) ==
  IF u.charts[chartId].pendingFilters = <<>>
  THEN [u EXCEPT !.charts[chartId].batchScheduled = FALSE]
  ELSE Published(
         IF u.charts[chartId].filterGroupStack # <<>>
         THEN clearChartFilters([u EXCEPT !.charts[chartId].batchScheduled = FALSE],
                                chartId)
         ELSE [u EXCEPT !.charts[chartId].batchScheduled = FALSE],
         chartId,
         [id |-> <<chartId, now>>, filters |-> u.charts[chartId].pendingFilters])

\* The callback Chart.render gives the renderer; queueMicrotask is the
\* batchScheduled flag, which the end of the task runs.
filterRequestCallback(u, chartId, f) ==
  IF f.col = "__clear_all__" THEN clearChartFilters(u, chartId)
  ELSE [u EXCEPT !.charts[chartId].pendingFilters = Append(@, f),
                 !.charts[chartId].batchScheduled = TRUE]

RECURSIVE Requested(_, _, _)
Requested(u, chartId, requests) ==
  IF requests = <<>> THEN u
  ELSE Requested(filterRequestCallback(u, chartId, Head(requests)), chartId,
                 Tail(requests))

\* seen: the task under way, the requests of its renderer or whether its
\* query resolved, the notifications made and the groups published in it.
Started(op, chartId, requests, resolved) ==
  [ui EXCEPT !.seen = [op |-> op, chart |-> chartId, requests |-> requests,
                       resolved |-> resolved, notes |-> <<>>,
                       published |-> <<>>]]

\* The end of a task: the queries of a MemorySource settle in order, each
\* running the rest of Chart.load, so that the last one's rows stay.
Drained(chart) ==
  IF chart.source = "memory" /\ chart.inflight # <<>>
  THEN [chart EXCEPT !.data = query(chart.inflight[Len(chart.inflight)]),
                     !.loading = FALSE, !.inflight = <<>>]
  ELSE chart

\* u: the page at the end of the task. The task is explored while the
\* history, the clock and the queries in flight stay within the bounds.
Stepped(u) ==
  /\ Len(u.history) <= MaxHistory
  /\ u.clock <= MaxClock
  /\ \A c \in Charts : Len(Drained(u.charts[c]).inflight) <= MaxInFlight
  /\ ui' = [u EXCEPT !.charts = [c \in Charts |-> Drained(u.charts[c])]]

\* Chart constructor: subscribe calls the listener once, which loads.
\* The task that constructed it is over.
NewChart(source) ==
  Drained(load([source |-> source, data |-> <<>>, loading |-> FALSE,
                filterGroupStack |-> <<>>, pendingFilters |-> <<>>,
                batchScheduled |-> FALSE, currentFilters |-> <<>>,
                inflight |-> <<>>], <<>>))

\* sources: the kind of DataSource each Chart was constructed with.
Page(sources) ==
  [groups |-> <<>>, history |-> <<>>, updateSourceChart |-> TRUE,
   charts |-> [c \in Charts |-> NewChart(sources[c])], clock |-> 0,
   seen |-> [op |-> "none", chart |-> "system", requests |-> <<>>,
             resolved |-> TRUE, notes |-> <<>>, published |-> <<>>]]

UiInit ==
  /\ vms = <<>> /\ ret = NoCall /\ born = <<>> /\ twin = NoTwin
  /\ pid_to_vm_ = <<>> /\ reply = NoReply /\ ext = <<>>
  /\ ui = Page([c \in Charts |-> "memory"])

\* A renderer's event handler issues its filter requests; the microtask it
\* queued, if any, runs at the end of the task.
RendererTask(chartId, requests, now) ==
  Stepped([(IF Requested(Started("render", chartId, requests, TRUE), chartId,
                         requests).charts[chartId].batchScheduled
            THEN processPendingFilters(
                   Requested(Started("render", chartId, requests, TRUE), chartId,
                             requests), chartId, now)
            ELSE Requested(Started("render", chartId, requests, TRUE), chartId,
                           requests))
             EXCEPT !.clock = now])

\* FilterDisplay: the button of a group, and 'Clear All Filters'.
DisplayClearsGroup(k) ==
  Stepped(clearFilterGroup(Started("clearFilterGroup", "ui", <<>>, TRUE), ui.groups[k].id, "ui"))

DisplayClearsAll == Stepped(clearAll(Started("clearAll", "system", <<>>, TRUE)))

Undo == Stepped(undo(Started("undo", "system", <<>>, TRUE)))

SetUpdateSourceChart(value) ==
  /\ ui.updateSourceChart # value
  /\ Stepped([Started("setUpdateSourceChart", "system", <<>>, TRUE)
                EXCEPT !.updateSourceChart = value])

\* The rest of Chart.load once the k-th query in flight has settled.
Settled(chartId, k, resolved, rows) ==
  [Started("query", chartId, <<>>, resolved) EXCEPT
     !.charts[chartId].data = rows,
     !.charts[chartId].loading = FALSE,
     !.charts[chartId].inflight = Take(@, k - 1) \o Drop(@, k)]

QuerySettles(chartId, k, resolved) ==
  Stepped(Settled(chartId, k, resolved,
                  IF resolved THEN query(ui.charts[chartId].inflight[k]) ELSE <<>>))

UiNext ==
  \/ /\ \E chartId \in Charts,
          requests \in Requests,
          now \in {ui.clock, ui.clock + 1} :
          RendererTask(chartId, requests, now)
     /\ UNCHANGED <<vms, ret, born, twin, pid_to_vm_, reply, ext>>
  \/ /\ \E k \in 1..Len(ui.groups) : DisplayClearsGroup(k)
     /\ UNCHANGED <<vms, ret, born, twin, pid_to_vm_, reply, ext>>
  \/ /\ DisplayClearsAll
     /\ UNCHANGED <<vms, ret, born, twin, pid_to_vm_, reply, ext>>
  \/ /\ Undo
     /\ UNCHANGED <<vms, ret, born, twin, pid_to_vm_, reply, ext>>
  \/ /\ \E value \in BOOLEAN : SetUpdateSourceChart(value)
     /\ UNCHANGED <<vms, ret, born, twin, pid_to_vm_, reply, ext>>

SpecUi == UiInit /\ [][UiNext]_vars

\* The page with chart-0 on a backend source: the other Chart filters and
\* clears, the store undoes, and the queries of chart-0 settle in any order.
LoadInit ==
  /\ vms = <<>> /\ ret = NoCall /\ born = <<>> /\ twin = NoTwin
  /\ pid_to_vm_ = <<>> /\ reply = NoReply /\ ext = <<>>
  /\ ui = Page([c \in Charts |-> IF c = "chart-0" THEN "backend" ELSE "memory"])

LoadNext ==
  \/ /\ \E requests \in Requests,
          now \in {ui.clock, ui.clock + 1} :
          RendererTask("chart-1", requests, now)
     /\ UNCHANGED <<vms, ret, born, twin, pid_to_vm_, reply, ext>>
  \/ /\ Undo
     /\ UNCHANGED <<vms, ret, born, twin, pid_to_vm_, reply, ext>>
  \/ /\ \E resolved \in BOOLEAN :
          \E k \in 1..Len(ui.charts["chart-0"].inflight) :
            QuerySettles("chart-0", k, resolved)
     /\ UNCHANGED <<vms, ret, born, twin, pid_to_vm_, reply, ext>>

SpecLoad == LoadInit /\ [][LoadNext]_vars

\* ------------------------------------------------------------- extensions
\* initializeExtensions: the manifests of the configured servers are
\* fetched in parallel and awaited together; then one macros, one
\* sql_modules and one proto_descriptors resource is fetched for every
\* selected module of every enabled server, in parallel, and each kind is
\* aggregated into a Map once all its fetches have settled. Strings that are
\* compared are sequences of UTF-16 code units; a Map is the sequence of its
\* entries in insertion order.

\* The extensionServers setting: the lists initializeExtensions is called
\* with. serverKey is what url_utils derives from the url.
ExtensionServers ==
  LET A(enabled, modules) ==
        [url |-> "https://a", serverKey |-> <<97>>, enabled |-> enabled,
         selectedModules |-> modules]
      B(enabled, modules) ==
        [url |-> "https://b", serverKey |-> <<98>>, enabled |-> enabled,
         selectedModules |-> modules]
  IN {<<A(TRUE, <<<<109>>>>), B(TRUE, <<<<109>>>>)>>,
      <<B(TRUE, <<<<109>>>>), A(TRUE, <<<<109>>>>)>>,
      <<A(TRUE, <<<<109>>, <<109>>>>), B(FALSE, <<<<109>>>>)>>,
      <<A(TRUE, <<<<110>>, <<109>>>>)>>}

\* What the network can answer to fetch(url): the fetch rejects, the status
\* is not OK, the body fails the schema, or the body is one of the documents
\* the server has. A resource is the sequence of its Object.entries.
Responses(serverKey, module, resourceType) ==
  LET String(v) == [kind |-> "string", v |-> v]
      Object(v) == [kind |-> "object", v |-> v]
      f == <<102>>
      f_g == <<102, 32, 103>>
      Ok(json) == [kind |-> "ok", json |-> json]
      Failures(json) == {[kind |-> "rejects", json |-> json],
                         [kind |-> "status", json |-> json],
                         [kind |-> "invalid", json |-> json]}
  IN IF resourceType = "manifest"
     THEN Failures([name |-> "", modules |-> <<>>, csp_allow |-> <<>>])
          \cup {Ok([name |-> "named", modules |-> <<<<109>>, <<110>>>>,
                    csp_allow |-> <<"https://cdn">>])}
     ELSE Failures(<<>>) \cup IF resourceType = "macros"
     THEN IF serverKey = <<97>> /\ module = <<109>>
          THEN {Ok(<<[key |-> f, value |-> Object(<<1>>)],
                     [key |-> f_g, value |-> Object(<<2>>)]>>),
                Ok(<<[key |-> f, value |-> Object(<<3>>)]>>)}
          ELSE {Ok(<<[key |-> f, value |-> Object(<<4>>)]>>)}
     ELSE IF resourceType = "sql_modules"
     THEN IF serverKey = <<97>> /\ module = <<109>>
          THEN {Ok(<<[key |-> f, value |-> String(<<120>>)],
                     [key |-> f_g, value |-> String(<<121>>)]>>)}
          ELSE {Ok(<<[key |-> f, value |-> String(<<122>>)]>>)}
     ELSE IF serverKey = <<97>> /\ module = <<109>>
          THEN {Ok(<<[key |-> <<112>>, value |-> Object(<<5>>)]>>)}
          ELSE {Ok(<<[key |-> <<112>>, value |-> Object(<<6>>)]>>)}

\* s < t in code-unit order.
RECURSIVE Less(_, _)
Less(s, t) ==
  IF t = <<>> THEN FALSE
  ELSE IF s = <<>> THEN TRUE
  ELSE IF Head(s) # Head(t) THEN Head(s) < Head(t)
  ELSE Less(Tail(s), Tail(t))

\* Array.prototype.sort (stable): Order(keys)[p] is the index of the
\* element that comes p-th.
Order(keys) ==
  [p \in 1..Len(keys) |->
     CHOOSE i \in 1..Len(keys) :
       Cardinality({j \in 1..Len(keys) :
                      \/ Less(keys[j], keys[i])
                      \/ keys[j] = keys[i] /\ j < i}) = p - 1]

\* String([key, value]), which sort() without a comparator compares:
\* the elements joined by a comma, an object being "[object Object]".
PairText(entry) ==
  entry.key \o <<44>> \o
  (IF entry.value.kind = "string" THEN entry.value.v
   ELSE <<91, 111, 98, 106, 101, 99, 116, 32, 79, 98, 106, 101, 99, 116, 93>>)

\* Mutant: the body of a response whose status is not OK is parsed too.
fetchJson_IgnoresStatus(response) ==
  IF response.kind = "rejects" THEN [defined |-> FALSE, value |-> response.json]
  ELSE IF response.kind = "invalid" THEN [defined |-> FALSE, value |-> response.json]
  ELSE [defined |-> TRUE, value |-> response.json]

fetchJson(response) ==
  IF response.kind = "rejects" THEN [defined |-> FALSE, value |-> response.json]
  ELSE IF response.kind = "status" THEN [defined |-> FALSE, value |-> response.json]
  ELSE IF response.kind = "invalid" THEN [defined |-> FALSE, value |-> response.json]
  ELSE [defined |-> TRUE, value |-> response.json]

\* manifest: what fetchManifest returned.
buildServerState(server, manifest) ==
  [url |-> server.url, selectedModules |-> server.selectedModules,
   enabled |-> server.enabled, serverKey |-> server.serverKey,
   displayName |-> IF manifest.defined THEN manifest.value.name ELSE server.url,
   availableModules |-> IF manifest.defined THEN manifest.value.modules ELSE <<>>,
   cspAllowUrls |-> IF manifest.defined THEN manifest.value.csp_allow ELSE <<>>,
   lastFetchStatus |-> IF manifest.defined THEN "success" ELSE "error"]

\* data: what fetchJson returned for the resource.
loadExtension(serverKey, module, resourceType, data) ==
  IF ~data.defined THEN <<>>
  ELSE [p \in 1..Len(data.value) |->
          [key |-> IF resourceType = "macros"
                   THEN <<91>> \o serverKey \o <<32>> \o module \o <<93, 32>> \o
                        data.value[Order([k \in 1..Len(data.value) |->
                                            PairText(data.value[k])])[p]].key
                   ELSE data.value[Order([k \in 1..Len(data.value) |->
                                            PairText(data.value[k])])[p]].key,
           value |-> data.value[Order([k \in 1..Len(data.value) |->
                                         PairText(data.value[k])])[p]].value]]

\* Mutant: a key already in the map is overwritten whatever the flag.
RECURSIVE aggregate_Overwrites(_, _, _)
aggregate_Overwrites(map, entries, overwrite) ==
  IF entries = <<>> THEN map
  ELSE aggregate_Overwrites(
         IF \E k \in 1..Len(map) : map[k].key = Head(entries).key
         THEN [k \in 1..Len(map) |->
                 IF map[k].key = Head(entries).key THEN Head(entries) ELSE map[k]]
         ELSE Append(map, Head(entries)),
         Tail(entries), overwrite)

\* aggregate: map is the Map so far, entries the entries of the results
\* still to be set, in the order of the results.
RECURSIVE aggregate(_, _, _)
aggregate(map, entries, overwrite) ==
  IF entries = <<>> THEN map
  ELSE aggregate(
         IF \E k \in 1..Len(map) : map[k].key = Head(entries).key
         THEN IF overwrite
              THEN [k \in 1..Len(map) |->
                      IF map[k].key = Head(entries).key THEN Head(entries)
                      ELSE map[k]]
              ELSE map
         ELSE Append(map, Head(entries)),
         Tail(entries), overwrite)

ResourceTypes == <<"macros", "sql_modules", "proto_descriptors">>

\* The loads initializeExtensions fires, in the order it pushes them.
Loads(states) ==
  LET enabled == SelectSeq(states, LAMBDA s : s.enabled)
      sorted == [p \in 1..Len(enabled) |->
                   enabled[Order([k \in 1..Len(enabled) |-> enabled[k].serverKey])[p]]]
      OfState(s) ==
        Concat([p \in 1..Len(s.selectedModules) |->
                  [t \in 1..3 |->
                     [serverKey |-> s.serverKey,
                      module |-> s.selectedModules[Order(s.selectedModules)[p]],
                      resourceType |-> ResourceTypes[t],
                      settled |-> FALSE,
                      data |-> [defined |-> FALSE, value |-> <<>>],
                      result |-> <<>>]]])
  IN Concat([p \in 1..Len(sorted) |-> OfState(sorted[p])])

\* Promise.all(...).then(aggregate): the Map of a kind once each of its
\* loads has settled.
Aggregated(loads, resourceType) ==
  LET mine == SelectSeq(loads, LAMBDA l : l.resourceType = resourceType)
  IN IF \E k \in 1..Len(mine) : ~mine[k].settled
     THEN [resolved |-> FALSE, map |-> <<>>]
     ELSE [resolved |-> TRUE,
           map |-> aggregate(<<>>, Concat([k \in 1..Len(mine) |-> mine[k].result]),
                             resourceType = "macros")]

\* e: the extension state after a fetch has settled (last: which fetch,
\* and what the network answered); once every manifest is
\* there the states are built and the loads fired, and once the loads of a
\* kind are there its promise resolves.
Continued(e) ==
  IF \E i \in 1..Len(e.manifests) : ~e.manifests[i].settled
  THEN e
  ELSE LET states == [i \in 1..Len(e.servers) |->
                        buildServerState(e.servers[i], e.manifests[i].manifest)]
           loads == IF e.built THEN e.loads ELSE Loads(states)
       IN [e EXCEPT !.built = TRUE, !.states = states, !.loads = loads,
                    !.macros = Aggregated(loads, "macros"),
                    !.sql_modules = Aggregated(loads, "sql_modules"),
                    !.proto_descriptors = Aggregated(loads, "proto_descriptors")]

\* initializeExtensions up to its await: every manifest fetch is in flight.
initializeExtensions(servers) ==
  Continued([servers |-> servers,
             manifests |-> [i \in 1..Len(servers) |->
                              [settled |-> FALSE,
                               manifest |-> [defined |-> FALSE,
                                            value |-> [name |-> "",
                                                       modules |-> <<>>,
                                                       csp_allow |-> <<>>]]]],
             last |-> [fetched |-> "none", index |-> 0, response |-> "none"],
             built |-> FALSE, states |-> <<>>, loads |-> <<>>,
             macros |-> [resolved |-> FALSE, map |-> <<>>],
             sql_modules |-> [resolved |-> FALSE, map |-> <<>>],
             proto_descriptors |-> [resolved |-> FALSE, map |-> <<>>]])

ExtInit ==
  /\ vms = <<>> /\ ret = NoCall /\ born = <<>> /\ twin = NoTwin
  /\ pid_to_vm_ = <<>> /\ reply = NoReply /\ ui = <<>>
  /\ ext \in {initializeExtensions(servers) : servers \in ExtensionServers}

\* The manifest fetch of the i-th server settles.
ManifestSettles(i, response) ==
  /\ ~ext.manifests[i].settled
  /\ ext' = Continued([ext EXCEPT
                         !.manifests[i] = [settled |-> TRUE,
                                           manifest |-> fetchJson(response)],
                         !.last = [fetched |-> "manifest", index |-> i,
                                   response |-> response.kind]])

\* The fetch of the j-th load settles.
LoadSettles(j, response) ==
  /\ ~ext.loads[j].settled
  /\ ext' = Continued([ext EXCEPT
                         !.loads[j] =
                           [@ EXCEPT !.settled = TRUE,
                                     !.data = fetchJson(response),
                                     !.result = loadExtension(
                                                  ext.loads[j].serverKey,
                                                  ext.loads[j].module,
                                                  ext.loads[j].resourceType,
                                                  fetchJson(response))],
                         !.last = [fetched |-> "load", index |-> j,
                                   response |-> response.kind]])

ExtNext ==
  \/ /\ \E i \in 1..Len(ext.manifests) :
          \E response \in Responses(ext.servers[i].serverKey, <<>>, "manifest") :
            ManifestSettles(i, response)
     /\ UNCHANGED <<vms, ret, born, twin, pid_to_vm_, reply, ui>>
  \/ /\ \E j \in 1..Len(ext.loads) :
          \E response \in Responses(ext.loads[j].serverKey, ext.loads[j].module,
                                    ext.loads[j].resourceType) :
            LoadSettles(j, response)
     /\ UNCHANGED <<vms, ret, born, twin, pid_to_vm_, reply, ui>>

SpecExt == ExtInit /\ [][ExtNext]_vars

\* ----------------------------------------------------------------- claims

IsReadOnly(i) == vms[i].state_.type = "ReadOnlyState"
IsReadWrite(i) == vms[i].state_.type = "ReadWriteState"
Serialized(vm) == SerializeIncrementalState(vm).result

\* C1: on a frozen-snapshot Vm (constructed from bytes or returned by
\* CloneReadOnly) every ApplyPatch call fails, and no call of any method
\* changes what SerializeIncrementalState returns.
C1_ReadOnlyImmutable ==
  [][\A i \in Live : IsReadOnly(i) =>
       /\ Serialized(vms'[i]) = Serialized(vms[i])
       /\ (ret'.op = "ApplyPatch" /\ ret'.self = i => ret'.status.state # "Ok")]_vars

\* A patch that a mutable Vm accepts has just been refused by a clone.
C1_Witness ==
  /\ ret.op = "ApplyPatch" /\ ret.value = SetOne /\ ret.status.state = "Abort"
  /\ IsReadOnly(ret.self) /\ born[ret.self].ctor = "clone"
  /\ Serialized(vms[ret.self]) # <<>>

\* C2: an ApplyPatch call on a mutable-builder Vm that is rejected leaves
\* SerializeIncrementalState byte-identical to what it was before the call.
C2_RejectedPatchAtomic ==
  [][(ret'.op = "ApplyPatch" /\ ret'.status.state # "Ok" /\ IsReadWrite(ret'.self))
       => Serialized(vms'[ret'.self]) = Serialized(vms[ret'.self])]_vars

\* A patch whose first field is valid and whose second field has the wrong
\* wire type has been rejected on a Vm that already holds state.
C2_Witness ==
  /\ ret.op = "ApplyPatch" /\ ret.value = WrongWireType
  /\ ret.status = AbortStatus("malformed-input")
  /\ IsReadWrite(ret.self) /\ Serialized(vms[ret.self]) = SetOne \o AppendOne

\* C3: a clone keeps returning the bytes it returned right after
\* CloneReadOnly, whatever is done to its source or to itself afterwards.
C3_CloneIndependent ==
  \A b \in Live : born[b].ctor = "clone" => Serialized(vms[b]) = born[b].snapshot

\* The source has been patched successfully since the clone was taken.
C3_Witness ==
  /\ ret.op = "ApplyPatch" /\ ret.status.state = "Ok"
  /\ \E b \in Live :
       /\ born[b].ctor = "clone" /\ born[b].source = ret.self
       /\ Serialized(vms[b]) = SetOne
       /\ Serialized(vms[ret.self]) = SetTwo \o AppendOne

\* C4: a patch that grows the tree by a known increment (AppendOne appends
\* one field of Len(AppendOne) bytes) succeeds exactly when the tree with the
\* increment stays within the memory_limit_bytes given at construction, and
\* when it fails the tree is the one the last successful patch left.
C4_BudgetEnforced ==
  [][(ret'.op = "ApplyPatch" /\ ret'.value = AppendOne /\ IsReadWrite(ret'.self)) =>
       LET i == ret'.self
           before == TrackedSize(vms[i].state_.incremental_state)
           after == TrackedSize(vms'[i].state_.incremental_state)
       IN  IF before + Len(AppendOne) <= born[i].memory_limit_bytes
           THEN ret'.status.state = "Ok" /\ after = before + Len(AppendOne)
           ELSE /\ ret'.status.state = "Abort"
                /\ Serialized(vms'[i]) = Serialized(vms[i])]_vars

\* Two increments fitted the budget and the third has just been refused.
C4_Witness ==
  /\ ret.op = "ApplyPatch" /\ ret.value = AppendOne
  /\ ret.status = AbortStatus("resource-exceeded")
  /\ Serialized(vms[ret.self]) = AppendOne \o AppendOne

\* C5: the tracked size of a mutable-builder Vm's tree never exceeds the
\* memory_limit_bytes its constructor was given.
C5_SizeWithinBudget ==
  \A i \in Live : IsReadWrite(i) =>
    TrackedSize(vms[i].state_.incremental_state) <= born[i].memory_limit_bytes

\* A Vm of the tight budget is full and has just refused a patch for it.
C5_Witness ==
  /\ ret.op = "ApplyPatch" /\ ret.status = AbortStatus("resource-exceeded")
  /\ born[ret.self].memory_limit_bytes = TightBudget
  /\ TrackedSize(vms[ret.self].state_.incremental_state) = TightBudget

C7_SerializeIdempotent ==
  [][ret'.op = "SerializeIncrementalState" =>
       /\ vms' = vms
       /\ (ret'.again => ret'.value = ret.value)]_vars

\* A frozen snapshot holding state has been serialized twice in a row.
C7_Witness ==
  /\ ret.op = "SerializeIncrementalState" /\ ret.again
  /\ IsReadOnly(ret.self) /\ ret.value = SetOne \o AppendOne

\* C8: the variant of a Vm is the one its constructor set up: mutable-builder
\* when constructed from a Program, frozen-snapshot when constructed from
\* bytes or by CloneReadOnly, in every reachable state.
C8_VariantFixed ==
  \A i \in Live :
    vms[i].state_.type =
      IF born[i].ctor = "program" THEN "ReadWriteState" ELSE "ReadOnlyState"

\* A mutable-builder Vm has been patched, serialized and cloned.
C8_Witness ==
  /\ ret.op = "SerializeProgram" /\ IsReadWrite(ret.self)
  /\ Serialized(vms[ret.self]) # <<>>
  /\ \E b \in Live : born[b].ctor = "clone" /\ born[b].source = ret.self

\* C9: CloneReadOnly adds one frozen-snapshot Vm whose serialized state is
\* the source's at the call, and leaves the source's variant, serialized
\* state, Program and answers to patches as they were.
C9_CloneReadOnly ==
  [][ret'.op = "CloneReadOnly" =>
       LET src == ret'.self
           new == Len(vms')
       IN  /\ new = Len(vms) + 1
           /\ vms'[new].state_.type = "ReadOnlyState"
           /\ Serialized(vms'[new]) = Serialized(vms[src])
           /\ vms'[src].state_.type = vms[src].state_.type
           /\ Serialized(vms'[src]) = Serialized(vms[src])
           /\ SerializeProgram(vms'[src]).result = SerializeProgram(vms[src]).result
           /\ \A packet \in Patches :
                ApplyPatch(vms'[src], packet).result = ApplyPatch(vms[src], packet).result]_vars

\* A mutable-builder Vm holding state has just been cloned.
C9_Witness ==
  /\ ret.op = "CloneReadOnly" /\ IsReadWrite(ret.self)
  /\ Serialized(vms[ret.self]) = SetTwo
  /\ Serialized(vms[Len(vms)]) = SetTwo

\* C10: on a frozen-snapshot Vm both ApplyPatch and SerializeProgram report
\* an explicit failure.
C10_UnsupportedFailsExplicitly ==
  (ret.op \in {"ApplyPatch", "SerializeProgram"} /\ IsReadOnly(ret.self))
    => ret.status.state # "Ok"

\* C11: the failure ApplyPatch returns on a frozen-snapshot Vm is an
\* unsupported-operation error, and on a mutable-builder Vm ApplyPatch
\* returns exactly what Run returns.
C11_UnsupportedOperationError ==
  [][ret'.op = "ApplyPatch" =>
       IF IsReadOnly(ret'.self)
       THEN ret'.status = AbortStatus("unsupported-operation")
       ELSE ret'.status =
              Run(vms[ret'.self].state_.parser, RoCursor(ret'.value),
                  vms[ret'.self].state_.incremental_state).status]_vars

\* C12: a Vm constructed from a byte string s serializes to exactly s, and so
\* does a clone of it.
C12_SnapshotRoundTrip ==
  \A i \in Live :
    /\ born[i].ctor = "incremental_state" => Serialized(vms[i]) = born[i].snapshot
    /\ (born[i].ctor = "clone" /\ born[born[i].source].ctor = "incremental_state")
         => Serialized(vms[i]) = born[born[i].source].snapshot

\* The clone of a Vm constructed from bytes that are no well-formed message
\* has been serialized.
C12_Witness ==
  /\ ret.op = "SerializeIncrementalState" /\ ret.value = <<Tag(1, VARINT)>>
  /\ born[ret.self].ctor = "clone"
  /\ born[born[ret.self].source].ctor = "incremental_state"

\* C13: SerializeProgram on a mutable-builder Vm returns the Program bytes
\* its constructor was given, in every reachable state.
C13_ProgramUnchanged ==
  /\ \A i \in Live :
       IsReadWrite(i) => SerializeProgram(vms[i]).result = born[i].program
  /\ (ret.op = "SerializeProgram" /\ IsReadWrite(ret.self))
       => ret.value = born[ret.self].program

\* The Program has been read back from a Vm that holds patched state.
C13_Witness ==
  /\ ret.op = "SerializeProgram" /\ ret.value = StrictProgram
  /\ Serialized(vms[ret.self]) = SetOne \o AppendOne

\* C14: a mutable-builder Vm serializes to the empty tree right after
\* construction, and keeps doing so through every call that is not a
\* successful ApplyPatch on it.
C14_EmptyUntilPatched ==
  [][\A i \in 1..Len(vms') :
       vms'[i].state_.type = "ReadWriteState" =>
         IF i \notin Live THEN Serialized(vms'[i]) = SerializeAsString(<<>>)
         ELSE (/\ Serialized(vms[i]) = SerializeAsString(<<>>)
               /\ ~(ret'.op = "ApplyPatch" /\ ret'.self = i
                     /\ ret'.status.state = "Ok"))
                => Serialized(vms'[i]) = SerializeAsString(<<>>)]_vars

\* A Vm that is still empty has just refused a patch whose first field is
\* valid.
C14_Witness ==
  /\ ret.op = "ApplyPatch" /\ ret.value = WrongWireType
  /\ ret.status.state = "Abort" /\ IsReadWrite(ret.self)
  /\ born[ret.self].memory_limit_bytes = RoomyBudget
  /\ Serialized(vms[ret.self]) = <<>>

\* C15: field 1 of the serialized state is the value of the most recent
\* successful patch that set it: a successful patch setting it makes it
\* that value, no other call changes it, and a clone starts with the
\* source's value and keeps it.
C15_LastWriteWins ==
  [][\A i \in 1..Len(vms') :
       IF i \notin Live
       THEN ret'.op = "CloneReadOnly" =>
              Decoded(Serialized(vms'[i]), 1) = Decoded(Serialized(vms[ret'.self]), 1)
       ELSE IF /\ ret'.op = "ApplyPatch" /\ ret'.self = i
               /\ ret'.status.state = "Ok" /\ Decoded(ret'.value, 1) # <<>>
       THEN Decoded(Serialized(vms'[i]), 1) = Decoded(ret'.value, 1)
       ELSE Decoded(Serialized(vms'[i]), 1) = Decoded(Serialized(vms[i]), 1)]_vars

\* The source was set to 2, cloned, and has now been set to 1: the clone
\* still decodes to 2.
C15_Witness ==
  /\ ret.op = "ApplyPatch" /\ ret.value = SetOne /\ ret.status.state = "Ok"
  /\ Decoded(Serialized(vms[ret.self]), 1) = <<1>>
  /\ \E b \in Live :
       /\ born[b].ctor = "clone" /\ born[b].source = ret.self
       /\ Decoded(Serialized(vms[b]), 1) = <<2>>

\* C16: under a Program whose region is not strict, a patch of unaddressed
\* fields only is accepted and changes nothing, and putting unaddressed
\* fields after or before a patch changes neither its result nor the state
\* it produces.
C16_UnaddressedIgnored ==
  \A i \in Live :
    (IsReadWrite(i) /\ ~DecodeProgram(born[i].program).strict) =>
      /\ ApplyPatch(vms[i], Unaddressed) = [vm |-> vms[i], result |-> OkStatus]
      /\ \A packet \in Patches :
           /\ ApplyPatch(vms[i], packet \o Unaddressed) = ApplyPatch(vms[i], packet)
           /\ ApplyPatch(vms[i], Unaddressed \o packet) = ApplyPatch(vms[i], packet)

\* A patch of one unaddressed field has been accepted by a Vm holding state.
C16_Witness ==
  /\ ret.op = "ApplyPatch" /\ ret.value = Unaddressed /\ ret.status = OkStatus
  /\ born[ret.self].program = LenientProgram
  /\ Serialized(vms[ret.self]) = AppendOne \o SetTwo

\* C17: a call on one Vm, or the construction of a new one, leaves every
\* other Vm as it was.
C17_InstancesIndependent ==
  [][\A j \in Live : j # ret'.self => vms'[j] = vms[j]]_vars

\* Two Vms of the same Program and budget hold different state, one of them
\* just patched.
C17_Witness ==
  /\ ret.op = "ApplyPatch" /\ ret.status.state = "Ok"
  /\ Len(vms) = 2 /\ born[1] = born[2] /\ born[1].ctor = "program"
  /\ Serialized(vms[1]) = SetOne /\ Serialized(vms[2]) = AppendOne \o SetTwo

\* C18: when ApplyPatch fails inside TryProcessPatch the call returns
\* nullopt and leaves every Vm and the index as they were, so that the
\* packets after it are handled as if it had not arrived; a packet whose
\* ApplyPatch succeeds, after a failed one or not, returns the state with
\* the envelope.
C18_FailedPatchDropped ==
  [][(reply'.op = "TryProcessPatch" /\ reply'.target # 0) =>
       IF reply'.status.state # "Ok"
       THEN reply'.returned = nullopt /\ vms' = vms /\ pid_to_vm_' = pid_to_vm_
       ELSE reply'.returned =
              <<Output(Serialized(vms'[reply'.target]), Decoder(reply'.packet))>>]_vars

\* A packet has been applied and returned right after a packet of the same
\* pid failed.
C18_Witness ==
  /\ reply.op = "TryProcessPatch" /\ reply.returned # nullopt
  /\ reply.after # 0 /\ reply.after = reply.pid[1]

EnvelopeFields == {trusted_uid, trusted_packet_sequence_id, trusted_pid}

VmsOf(entries, pid) ==
  {entries[k].vm : k \in {n \in 1..Len(entries) : entries[n].pid = pid}}
PidsOf(entries, vm) ==
  {entries[k].pid : k \in {n \in 1..Len(entries) : entries[n].vm = vm}}

\* C20: every indexed pid is associated with exactly one Vm and no Vm with
\* two pids.
C20_OneVmPerPid ==
  \A a, b \in 1..Len(pid_to_vm_) :
    pid_to_vm_[a].pid = pid_to_vm_[b].pid <=> pid_to_vm_[a].vm = pid_to_vm_[b].vm

\* C20 as amended: InstantiateProtoVm creates one Vm and indexes it under
\* exactly the pids of its configuration, whatever is indexed already, and
\* changes the pids of no other Vm; TryProcessPatch changes at most one Vm,
\* one indexed under the packet's trusted_pid.
C20_OneVmPerConfiguration ==
  [][/\ reply'.op = "InstantiateProtoVm" =>
          /\ Len(vms') = Len(vms) + 1
          /\ PidsOf(pid_to_vm_', Len(vms')) =
               {reply'.pid[k] : k \in 1..Len(reply'.pid)}
          /\ \A j \in Live : PidsOf(pid_to_vm_', j) = PidsOf(pid_to_vm_, j)
     /\ reply'.op = "TryProcessPatch" =>
          \A j \in Live : vms'[j] # vms[j] =>
            /\ j = reply'.target
            /\ j \in VmsOf(pid_to_vm_, reply'.pid[1])]_vars

\* Pid 1 is indexed for two Vms and the first Vm for two pids; a packet of
\* pid 2 has been applied and the two Vms hold different state.
C20_Witness ==
  /\ reply.op = "TryProcessPatch" /\ reply.status = OkStatus
  /\ reply.pid = <<2>> /\ reply.target = 1
  /\ VmsOf(pid_to_vm_, 1) = {1, 2} /\ PidsOf(pid_to_vm_, 1) = {1, 2}
  /\ Serialized(vms[1]) # Serialized(vms[2])

\* C21: every Vm the index refers to is in the arena; the arena only grows
\* and no Vm in it is replaced; InstantiateProtoVm adds exactly one Vm;
\* TryProcessPatch changes neither the arena's membership nor the index.
C21_ArenaAndIndex ==
  [][/\ \A k \in 1..Len(pid_to_vm_') : pid_to_vm_'[k].vm \in 1..Len(vms')
     /\ \A j \in Live :
          /\ j \in 1..Len(vms') /\ born'[j] = born[j]
          /\ vms'[j].owned_program = vms[j].owned_program
          /\ vms'[j].state_.type = vms[j].state_.type
     /\ reply'.op = "InstantiateProtoVm" => Len(vms') = Len(vms) + 1
     /\ reply'.op = "TryProcessPatch" =>
          Len(vms') = Len(vms) /\ pid_to_vm_' = pid_to_vm_]_vars

\* Two configurations have been instantiated, three index entries made, and
\* a packet has been applied.
C21_Witness ==
  /\ reply.op = "TryProcessPatch" /\ reply.status = OkStatus /\ reply.target = 2
  /\ Len(vms) = 2 /\ Len(pid_to_vm_) = 3

\* C25: TryProcessPatch on a packet without trusted_pid, or with a
\* trusted_pid no configuration listed, returns nullopt and calls ApplyPatch
\* on no Vm: every Vm serializes as before.
C25_UnroutedPacketDropped ==
  [][(/\ reply'.op = "TryProcessPatch"
      /\ \/ ~has(Decoder(reply'.packet), trusted_pid)
         \/ VmsOf(pid_to_vm_, Get(Decoder(reply'.packet), trusted_pid)) = {})
     => /\ reply'.returned = nullopt /\ reply'.target = 0 /\ reply'.passed = <<>>
        /\ \A j \in Live : Serialized(vms'[j]) = Serialized(vms[j])]_vars

\* A packet of a pid no configuration lists has been dropped while pid 1 is
\* not indexed and the Vm of pid 2 holds state.
C25_Witness ==
  /\ reply.op = "TryProcessPatch" /\ reply.target = 0 /\ reply.pid = <<3>>
  /\ VmsOf(pid_to_vm_, 1) = {} /\ VmsOf(pid_to_vm_, 2) = {1}
  /\ Serialized(vms[1]) = SetTwo

\* C26: on success the returned blob is the target's serialized state as it
\* is after the patch, followed by trusted_uid, trusted_pid and
\* trusted_packet_sequence_id of the packet, and no Vm but the target has
\* changed.
C26_StateAfterThenEnvelope ==
  [][(reply'.op = "TryProcessPatch" /\ reply'.target # 0
      /\ reply'.status.state = "Ok")
     => /\ reply'.returned =
             <<Serialized(vms'[reply'.target])
               \o Envelope(Get(Decoder(reply'.packet), trusted_uid),
                           Get(Decoder(reply'.packet), trusted_pid),
                           Get(Decoder(reply'.packet), trusted_packet_sequence_id))>>
        /\ Serialized(vms'[reply'.target]) =
             Serialized(ApplyPatch(vms[reply'.target], reply'.packet).vm)
        /\ \A j \in Live : j # reply'.target => vms'[j] = vms[j]]_vars

\* Pid 1 is indexed for two Vms; its packet changed one of them and the
\* blob returned carries the new state.
C26_Witness ==
  /\ reply.op = "TryProcessPatch" /\ reply.status = OkStatus /\ reply.pid = <<1>>
  /\ VmsOf(pid_to_vm_, 1) = {1, 2}
  /\ reply.returned = <<SetTwo \o Envelope(5, 1, 1)>>
  /\ \E j \in Live : j # reply.target /\ Serialized(vms[j]) = <<>>

OwnGroups(groups, chartId) ==
  {k \in 1..Len(groups) : groups[k].id[1] = chartId}

\* C22: every change of the groups is notified; after a task that notified,
\* every Chart holds the store's filters; at each notification the Charts
\* that reload are all but the source chart when updateSourceChart is
\* false, and all otherwise; a source chart that skipped keeps its data and
\* starts no query.
C22_TwoPhaseNotification ==
  [][/\ ui'.groups # ui.groups => ui'.seen.notes # <<>>
     /\ ui'.seen.notes # <<>> =>
          \A c \in Charts : ui'.charts[c].currentFilters = getFilters(ui'.groups)
     /\ \A n \in 1..Len(ui'.seen.notes) :
          ui'.seen.notes[n].reloaded =
            {c \in Charts : c # ui'.seen.notes[n].source \/ ui.updateSourceChart}
     /\ \A c \in Charts :
          (/\ ui'.seen.notes # <<>> /\ ~ui.updateSourceChart
           /\ \A n \in 1..Len(ui'.seen.notes) : ui'.seen.notes[n].source = c)
          => /\ ui'.charts[c].data = ui.charts[c].data
             /\ ui'.charts[c].loading = ui.charts[c].loading
             /\ ui'.charts[c].inflight = ui.charts[c].inflight]_vars

\* With updateSourceChart false chart-0 has published a group: chart-1
\* reloaded and chart-0 still shows every row.
C22_Witness ==
  /\ ui.seen.op = "render" /\ ui.seen.chart = "chart-0" /\ ~ui.updateSourceChart
  /\ Len(ui.seen.published) = 1
  /\ ui.charts["chart-0"].data = Rows /\ ui.charts["chart-1"].data = <<1>>

RECURSIVE UndoTimes(_, _)
UndoTimes(u, k) == IF k = 0 THEN u ELSE UndoTimes(undo(u), k - 1)

\* C23: undoing as many times as a task pushed history gives the groups
\* there were before the task; undoing the whole history gives the empty
\* store; undo on an empty history changes nothing and notifies nobody.
C23_UndoInverse ==
  [][/\ Len(ui'.history) >= Len(ui.history) =>
          UndoTimes(ui', Len(ui'.history) - Len(ui.history)).groups = ui.groups
     /\ UndoTimes(ui', Len(ui'.history)).groups = <<>>
     /\ ui'.history = <<>> => undo(ui') = ui'
     /\ ui'.seen.op = "undo" =>
          IF ui.history = <<>> THEN ui'.groups = ui.groups /\ ui'.seen.notes = <<>>
          ELSE ui'.groups = ui.history[Len(ui.history)]]_vars

\* A group that its chart had cleared is back after undo.
C23_Witness ==
  /\ ui.seen.op = "undo" /\ Len(ui.seen.notes) = 1
  /\ Len(ui.groups) = 1 /\ Len(ui.history) = 1
  /\ ui.charts[ui.groups[1].id[1]].filterGroupStack = <<>>

\* C27: the filter requests of one task become one group, in request order,
\* published by one setFilterGroup call, and after every task the store
\* holds at most one group created by each Chart.
C27_OneGroupPerChart ==
  [][/\ (ui'.seen.op = "render"
         /\ SelectSeq(ui'.seen.requests, LAMBDA f : f.col # "__clear_all__") # <<>>)
        => /\ Len(ui'.seen.published) = 1
           /\ ui'.seen.published[1].filters =
                SelectSeq(ui'.seen.requests, LAMBDA f : f.col # "__clear_all__")
     /\ \A c \in Charts : Cardinality(OwnGroups(ui'.groups, c)) <= 1]_vars

\* C28: a Chart with a query in flight is loading, and when the last query
\* in flight resolves the data are the rows of the current filters.
C28_LatestQueryWins ==
  [][\A c \in Charts :
       /\ ui'.charts[c].inflight # <<>> => ui'.charts[c].loading
       /\ (/\ ui'.seen.op = "query" /\ ui'.seen.chart = c /\ ui'.seen.resolved
           /\ ui'.charts[c].inflight = <<>>)
          => ui'.charts[c].data = query(ui'.charts[c].currentFilters)]_vars

\* C29: hasActiveFilters() of a Chart is true exactly when the store holds
\* a group the Chart created.
C29_ActiveFiltersAgree ==
  \A c \in Charts :
    ui.charts[c].filterGroupStack # <<>> <=> OwnGroups(ui.groups, c) # {}

\* The entries of the settled loads of a kind, in the order of the loads.
EntriesOf(resourceType) ==
  Concat([k \in 1..Len(ext.loads) |->
            IF ext.loads[k].resourceType = resourceType THEN ext.loads[k].result
            ELSE <<>>])

\* The loads are those of the enabled servers and their selected modules,
\* three for each, in the order of server key and module.
LoadsAsConfigured ==
  /\ \A j, k \in 1..Len(ext.loads) :
       j < k => ~Less(ext.loads[k].serverKey \o <<0>> \o ext.loads[k].module,
                      ext.loads[j].serverKey \o <<0>> \o ext.loads[j].module)
  /\ \A j \in 1..Len(ext.loads) :
       \A t \in 1..3 :
         Cardinality({k \in 1..Len(ext.loads) :
                        /\ ext.loads[k].serverKey = ext.loads[j].serverKey
                        /\ ext.loads[k].module = ext.loads[j].module
                        /\ ext.loads[k].resourceType = ResourceTypes[t]})
         = Cardinality({ip \in (1..Len(ext.servers)) \X (1..2) :
                          /\ ext.servers[ip[1]].enabled
                          /\ ext.servers[ip[1]].serverKey = ext.loads[j].serverKey
                          /\ ip[2] <= Len(ext.servers[ip[1]].selectedModules)
                          /\ ext.servers[ip[1]].selectedModules[ip[2]]
                               = ext.loads[j].module})
  /\ \A i \in 1..Len(ext.servers) :
       \A p \in 1..Len(ext.servers[i].selectedModules) :
         ext.servers[i].enabled <=>
           \E j \in 1..Len(ext.loads) :
             /\ ext.loads[j].serverKey = ext.servers[i].serverKey
             /\ ext.loads[j].module = ext.servers[i].selectedModules[p]

\* map holds each key of entries once, in the order of first appearance,
\* with the value of its last entry (last) or of its first.
MergesTo(map, entries, last) ==
  /\ \A a, b \in 1..Len(map) : a # b => map[a].key # map[b].key
  /\ \A k \in 1..Len(entries) : \E a \in 1..Len(map) : map[a].key = entries[k].key
  /\ \A a \in 1..Len(map) :
       \E k \in 1..Len(entries) :
         /\ entries[k] = map[a]
         /\ \A n \in 1..Len(entries) :
              entries[n].key = map[a].key => IF last THEN n <= k ELSE n >= k
  /\ \A a, b \in 1..Len(map) :
       a < b => \E k \in 1..Len(entries) :
                  /\ entries[k].key = map[a].key
                  /\ \A n \in 1..k : entries[n].key # map[b].key

\* Each promise resolves once the loads of its kind have settled, with the
\* entries merged in the order of the loads: last entry of a key for
\* macros, first entry for the other kinds.
MapsMerged ==
  /\ ext.macros.resolved => MergesTo(ext.macros.map, EntriesOf("macros"), TRUE)
  /\ ext.sql_modules.resolved =>
       MergesTo(ext.sql_modules.map, EntriesOf("sql_modules"), FALSE)
  /\ ext.proto_descriptors.resolved =>
       MergesTo(ext.proto_descriptors.map, EntriesOf("proto_descriptors"), FALSE)
  /\ \A t \in 1..3 :
       (\E j \in 1..Len(ext.loads) :
          ext.loads[j].resourceType = ResourceTypes[t] /\ ~ext.loads[j].settled)
       => ~(CASE t = 1 -> ext.macros [] t = 2 -> ext.sql_modules
              [] OTHER -> ext.proto_descriptors).resolved

\* The result of a load holds the fetched entries, each once.
ResultHoldsData(fired) ==
  /\ Len(fired.result) = Len(fired.data.value)
  /\ \A k \in 1..Len(fired.data.value) :
       \E p \in 1..Len(fired.result) :
         /\ fired.result[p].value = fired.data.value[k].value
         /\ fired.result[p].key =
              IF fired.resourceType = "macros"
              THEN <<91>> \o fired.serverKey \o <<32>> \o fired.module \o <<93, 32>>
                   \o fired.data.value[k].key
              ELSE fired.data.value[k].key

C30_FetchFailuresIsolated ==
  [][/\ ext'.last.fetched = "manifest" =>
          (ext'.manifests[ext'.last.index].manifest.defined
             <=> ext'.last.response = "ok")
     /\ ext'.last.fetched = "load" =>
          (ext'.loads[ext'.last.index].data.defined <=> ext'.last.response = "ok")
     /\ ext'.built <=> \A i \in 1..Len(ext'.manifests) : ext'.manifests[i].settled
     /\ ext'.built =>
          \A i \in 1..Len(ext'.servers) :
            IF ext'.manifests[i].manifest.defined
            THEN ext'.states[i].lastFetchStatus = "success"
            ELSE /\ ext'.states[i].lastFetchStatus = "error"
                 /\ ext'.states[i].displayName = ext'.servers[i].url
                 /\ ext'.states[i].availableModules = <<>>
                 /\ ext'.states[i].cspAllowUrls = <<>>
     /\ \A j \in 1..Len(ext'.loads) :
          /\ (ext'.loads[j].settled /\ ~ext'.loads[j].data.defined)
               => ext'.loads[j].result = <<>>
          /\ (ext'.loads[j].settled /\ ext'.loads[j].data.defined)
               => /\ Len(ext'.loads[j].result) = Len(ext'.loads[j].data.value)
                  /\ Len(ext'.loads[j].result) > 0
     /\ \A t \in 1..3 :
          LET promise == CASE t = 1 -> ext'.macros [] t = 2 -> ext'.sql_modules
                           [] OTHER -> ext'.proto_descriptors
          IN /\ (ext'.built /\ \A j \in 1..Len(ext'.loads) :
                   ext'.loads[j].resourceType = ResourceTypes[t] => ext'.loads[j].settled)
                  => promise.resolved
             /\ promise.resolved =>
                  \A j \in 1..Len(ext'.loads) :
                    ext'.loads[j].resourceType = ResourceTypes[t] =>
                      \A p \in 1..Len(ext'.loads[j].result) :
                        \E a \in 1..Len(promise.map) :
                          promise.map[a].key = ext'.loads[j].result[p].key]_vars

\* The manifest of server a and its SQL modules could not be fetched, and
\* the three promises are resolved with what b and the other loads gave.
C30_Witness ==
  /\ ext.built /\ Len(ext.servers) = 2 /\ ext.servers[1].serverKey = <<97>>
  /\ ext.states[1].lastFetchStatus = "error"
  /\ ext.states[2].lastFetchStatus = "success"
  /\ ext.macros.resolved /\ ext.sql_modules.resolved /\ ext.proto_descriptors.resolved
  /\ \E j \in 1..Len(ext.loads) :
       /\ ext.loads[j].serverKey = <<97>> /\ ext.loads[j].resourceType = "sql_modules"
       /\ ~ext.loads[j].data.defined
  /\ ext.sql_modules.map = <<[key |-> <<102>>, value |-> [kind |-> "string", v |-> <<122>>]]>>
  /\ Len(ext.macros.map) = 3

====
